---------------------------- MODULE Spec2Model ----------------------------
(***************************************************************************)
(* rnzml: Renderer.Render and Renderer.renderLine (src/rnzml.go).          *)
(*                                                                         *)
(* Text is modelled at the level the code works on: a line is a sequence   *)
(* of runes (Unicode code points, integers), the output sink holds a       *)
(* sequence of bytes (integers 0..255).  A Go string literal such as "<p>" *)
(* is the tuple of its bytes, <<60, 112, 62>>.                             *)
(***************************************************************************)
EXTENDS Integers, Sequences, FiniteSets, TLC

(***************************************************************************)
(* Bounds of the model.                                                    *)
(***************************************************************************)
\* longest line over the whole alphabet in a one-line document
MaxLineLen == 3
\* longest content between '[' and ']' in a one-line bracketed document
MaxLinkLen == 3
\* most lines of a multi-line document
MaxLines == 3
\* the sink rejects its failAt-th Write, failAt in 0..MaxFailAt (0: never)
MaxFailAt == 3

(***************************************************************************)
(* Runes the code compares against (src/rnzml.go:145-200, :151).           *)
(***************************************************************************)
Backslash == 92
Star == 42
Backtick == 96
OpenBracket == 91
CloseBracket == 93
Space == 32

(***************************************************************************)
(* HTML constants, src/rnzml.go:12-23 and NewRenderer :46-58.              *)
(***************************************************************************)
\* "<pre><code>"
codeBlockStartString == <<60, 112, 114, 101, 62, 60, 99, 111, 100, 101, 62>>
\* "</code></pre>\n"
codeBlockEndString ==
    <<60, 47, 99, 111, 100, 101, 62, 60, 47, 112, 114, 101, 62, 10>>
\* "<p>"
textBlockStartString == <<60, 112, 62>>
\* textBlockEndString without the closing tag: the paragraph runs on
textBlockEndUnclosed == <<10>>

\* "\n</p>\n"
textBlockEndString == <<10, 60, 47, 112, 62, 10>>
\* "<strong>"
boldTextStartString == <<60, 115, 116, 114, 111, 110, 103, 62>>
\* "</strong>"
boldTextEndString == <<60, 47, 115, 116, 114, 111, 110, 103, 62>>
\* "<code>"
codeTextStartString == <<60, 99, 111, 100, 101, 62>>
\* "</code>"
codeTextEndString == <<60, 47, 99, 111, 100, 101, 62>>
\* "\n"
newlineString == <<10>>
\* the fence line "```" (src/rnzml.go:70), as runes
fenceLine == <<Backtick, Backtick, Backtick>>
\* runeBuffer := []byte{4}: a slice of ONE byte whose value is 4
runeBuffer == <<4>>

(***************************************************************************)
(* Sequence helpers.                                                       *)
(***************************************************************************)
BoundedSeq(S, n) == UNION {[1..k -> S] : k \in 0..n}

RECURSIVE Flatten(_)
Flatten(ss) == IF ss = <<>> THEN <<>> ELSE Head(ss) \o Flatten(Tail(ss))

\* index of the first element of s equal to x, 0 when there is none
IndexOf(s, x) ==
    IF \E i \in 1..Len(s) : s[i] = x
    THEN CHOOSE i \in 1..Len(s) : s[i] = x /\ \A j \in 1..(i-1) : s[j] # x
    ELSE 0

\* does the byte sequence pat occur in s starting at index i
OccursAt(s, pat, i) ==
    /\ i >= 1
    /\ i + Len(pat) - 1 <= Len(s)
    /\ \A k \in 1..Len(pat) : s[i + k - 1] = pat[k]

Contains(s, pat) == \E i \in 1..Len(s) : OccursAt(s, pat, i)

(***************************************************************************)
(* unicode/utf8.EncodeRune, as used at src/rnzml.go:119 and by             *)
(* strings.Builder.WriteRune (:139, :166).                                 *)
(***************************************************************************)
\* the UTF-8 bytes of U+FFFD, the replacement character
runeErrorBytes == <<239, 191, 189>>

EncodeRune(r) ==
    IF r >= 0 /\ r <= 127 THEN <<r>>
    ELSE IF r >= 0 /\ r <= 2047 THEN <<192 + (r \div 64), 128 + (r % 64)>>
    ELSE IF r < 0 \/ r > 1114111 \/ (r >= 55296 /\ r <= 57343)
         THEN runeErrorBytes
    ELSE IF r <= 65535
         THEN <<224 + (r \div 4096), 128 + ((r \div 64) % 64), 128 + (r % 64)>>
    ELSE <<240 + (r \div 262144), 128 + ((r \div 4096) % 64),
           128 + ((r \div 64) % 64), 128 + (r % 64)>>

RuneLen(r) == Len(EncodeRune(r))

\* the bytes of a line: scanner.Bytes() (src/rnzml.go:98)
LineBytes(line) == Flatten([i \in 1..Len(line) |-> EncodeRune(line[i])])

\* the byte offset n that `for n, r := range line` gives the i-th rune
ByteOffset(line, i) == Len(LineBytes(SubSeq(line, 1, i - 1)))

(***************************************************************************)
(* template.HTMLEscape(w, b) (src/rnzml.go:98, :120): the sequence of      *)
(* chunks it hands to w.Write, in order.  For every byte to escape it      *)
(* writes the unescaped run before it (possibly empty) and the             *)
(* replacement; it ends with the rest (possibly empty).  It returns        *)
(* nothing: the results of these writes are dropped.                       *)
(***************************************************************************)
HTMLEscapeTable(c) ==
    CASE c = 0  -> runeErrorBytes
      [] c = 34 -> <<38, 35, 51, 52, 59>>      \* &#34;
      [] c = 39 -> <<38, 35, 51, 57, 59>>      \* &#39;
      [] c = 38 -> <<38, 97, 109, 112, 59>>    \* &amp;
      [] c = 60 -> <<38, 108, 116, 59>>        \* &lt;
      [] c = 62 -> <<38, 103, 116, 59>>        \* &gt;
      [] OTHER  -> <<>>

RECURSIVE HTMLEscapeFrom(_, _, _)
HTMLEscapeFrom(b, i, last) ==
    IF i > Len(b) THEN <<SubSeq(b, last, Len(b))>>
    ELSE IF HTMLEscapeTable(b[i]) # <<>>
         THEN <<SubSeq(b, last, i - 1), HTMLEscapeTable(b[i])>>
              \o HTMLEscapeFrom(b, i + 1, i + 1)
         ELSE HTMLEscapeFrom(b, i + 1, last)

HTMLEscape(b) == HTMLEscapeFrom(b, 1, 1)

\* what HTMLEscape leaves in a sink that accepts every write
HTMLEscapeString(b) == Flatten(HTMLEscape(b))

(***************************************************************************)
(* linkTemplate (src/rnzml.go:25) executed by html/template: the URL sits  *)
(* in an href attribute and goes through the URL filter, the URL           *)
(* normalizer and the attribute escaper; the Label is element content and  *)
(* goes through the HTML escaper.                                          *)
(***************************************************************************)
\* the representative of a rune's orbit under unicode.SimpleFold, for the
\* orbits that hold an ASCII letter: upper and lower case, and with them
\* U+017F (long s) for 's' and U+212A (Kelvin sign) for 'k'
SimpleFold(c) ==
    IF c >= 65 /\ c <= 90 THEN c + 32
    ELSE IF c = 383 THEN 115
    ELSE IF c = 8490 THEN 107
    ELSE c

\* strings.EqualFold(s, t), s and t sequences of runes, t one of the ASCII
\* words "http", "https", "mailto"
EqualFold(s, t) ==
    /\ Len(s) = Len(t)
    /\ \A i \in 1..Len(s) : SimpleFold(s[i]) = SimpleFold(t[i])

\* a ':' before any '/' must follow http, https or mailto; s is the URL
\* as runes
isSafeURL(s) ==
    LET colon == IndexOf(s, 58)
        protocol == SubSeq(s, 1, colon - 1)
    IN  \/ colon = 0
        \/ IndexOf(protocol, 47) # 0
        \/ EqualFold(protocol, <<104, 116, 116, 112>>)
        \/ EqualFold(protocol, <<104, 116, 116, 112, 115>>)
        \/ EqualFold(protocol, <<109, 97, 105, 108, 116, 111>>)

\* "#ZgotmplZ"
filterFailsafe == <<35, 90, 103, 111, 116, 109, 112, 108, 90>>

\* s is the URL as runes, and so is the result
urlFilter(s) == IF isSafeURL(s) THEN s ELSE filterFailsafe

isHex(c) ==
    \/ (c >= 48 /\ c <= 57)
    \/ (c >= 97 /\ c <= 102)
    \/ (c >= 65 /\ c <= 70)

HexDigit(d) == IF d < 10 THEN 48 + d ELSE 87 + d

\* fmt.Fprintf(b, "%%%02x", c)
PercentEncode(c) == <<37, HexDigit(c \div 16), HexDigit(c % 16)>>

\* bytes the normalizer leaves alone: RFC 3986 reserved and unreserved
urlKeeps(s, i) ==
    LET c == s[i]
    IN  \/ c \in {33, 35, 36, 38, 42, 43, 44, 47, 58, 59, 61, 63, 64, 91, 93}
        \/ c \in {45, 46, 95, 126}
        \/ (c = 37 /\ i + 2 <= Len(s) /\ isHex(s[i + 1]) /\ isHex(s[i + 2]))
        \/ (c >= 97 /\ c <= 122)
        \/ (c >= 65 /\ c <= 90)
        \/ (c >= 48 /\ c <= 57)

urlNormalizer(s) ==
    Flatten([i \in 1..Len(s) |->
                IF urlKeeps(s, i) THEN <<s[i]>> ELSE PercentEncode(s[i])])

\* htmlReplacementTable: as HTMLEscapeTable plus '+'
htmlReplacementTable(r) ==
    CASE r = 43 -> <<38, 35, 52, 51, 59>>      \* &#43;
      [] r >= 0 /\ r <= 62 -> HTMLEscapeTable(r)
      [] OTHER  -> <<>>

\* both escapers take a sequence of runes and give bytes; the value is a
\* plain string in both, so both use htmlReplacementTable
attrEscaper(rs) ==
    Flatten([i \in 1..Len(rs) |->
                IF htmlReplacementTable(rs[i]) # <<>>
                THEN htmlReplacementTable(rs[i]) ELSE EncodeRune(rs[i])])

htmlEscaper(rs) ==
    Flatten([i \in 1..Len(rs) |->
                IF htmlReplacementTable(rs[i]) # <<>>
                THEN htmlReplacementTable(rs[i]) ELSE EncodeRune(rs[i])])

\* the five writes of linkTemplate.Execute(out, link{URL, Label}), in order:
\* `<a href="`, the escaped URL, `">`, the escaped Label, `</a>`
linkTemplate(URL, Label) ==
    << <<60, 97, 32, 104, 114, 101, 102, 61, 34>>,
       attrEscaper(urlNormalizer(LineBytes(urlFilter(URL)))),
       <<34, 62>>,
       htmlEscaper(Label),
       <<60, 47, 97, 62>> >>

\* strings.SplitN(content, " ", 2) (src/rnzml.go:151)
SplitN2(content) ==
    LET i == IndexOf(content, Space)
    IN  IF i = 0 THEN <<content>>
        ELSE <<SubSeq(content, 1, i - 1), SubSeq(content, i + 1, Len(content))>>

(***************************************************************************)
(* Input documents.  A document is the sequence of lines scanner.Scan()    *)
(* yields (src/rnzml.go:66-69): the text between newlines.                 *)
(***************************************************************************)
\* \ * ` [ ] space a < and runes of 2, 3 and 4 bytes (U+00E9, U+20AC,
\* U+1F600).  Lines are valid UTF-8: `range line` yields these runes.
Alphabet ==
    {Backslash, Star, Backtick, OpenBracket, CloseBracket, Space,
     97, 60, 233, 8364, 128512}

ShortLines == BoundedSeq(Alphabet, MaxLineLen)

LinkLines ==
    {<<OpenBracket>> \o s \o <<CloseBracket>> :
        s \in BoundedSeq(Alphabet, MaxLinkLen)}

\* longer lines shaped after the repository's tests
ExampleLines ==
    { <<42, 97, 42, 32, 96, 97, 96>>,                  \* *a* `a`
      <<91, 97, 32, 97, 32, 97, 93>>,                  \* [a a a]
      <<91, 97, 32, 97, 93, 91, 97, 32, 97, 93>>,      \* [a a][a a]
      <<42, 96, 42, 91, 96, 42>>,                      \* *`*[`*
      <<42, 91, 97, 32, 97>>,                          \* *[a a
      <<92, 92, 42, 42>>,                              \* \\**
      <<91, 97, 32, 97>>,                              \* [a a
      <<42, 91, 97, 32, 42, 96, 91, 93, 42>>,          \* *[a *`[]*
      <<91, 97, 32, 92, 93, 93>>,                      \* [a \]]
      <<42, 97, 42, 32, 96, 97, 96, 32, 91, 97, 32, 97, 93>>, \* *a* `a` [a a]
      <<42, 42, 91, 233, 32, 97, 93, 42, 91>>,         \* **[U+00E9 a]*[
      <<91, 97, 38, 98, 32, 99, 93>>,                  \* [a&b c]
      <<91, 104, 116, 116, 112, 383, 58, 120, 32, 121, 93>>,
                                                       \* [httpU+017F:x y]
      <<91, 102, 116, 112, 58, 120, 32, 121, 93>> }    \* [ftp:x y]

\* lines of the multi-line documents
SampleLines ==
    { <<>>, fenceLine, <<97>>, <<97, 42>>, <<Backslash>>, <<60>>,
      <<42, 97, 42>> }

\* longer documents shaped after the README example and TestRender
ExampleDocs ==
    { << <<97>>, <<>>, <<42, 97, 42>>, <<>>, fenceLine, <<97>>, fenceLine >>,
      << <<97>>, fenceLine, <<97, 42>>, <<>>, fenceLine, <<42, 97, 42>> >>,
      << <<>>, fenceLine, <<97>>, fenceLine, <<97, 42>>, <<97>> >>,
      << <<97>>, fenceLine, <<97, 42>>, fenceLine, fenceLine, <<97, 42>> >> }

\* one line of any runes inside a code fence
FencedDocs ==
    {<<fenceLine, l, fenceLine>> :
        l \in BoundedSeq(Alphabet, MaxLineLen - 1) \ {fenceLine}}

Docs ==
    {<<l>> : l \in ShortLines \cup LinkLines \cup ExampleLines}
    \cup BoundedSeq(SampleLines, MaxLines)
    \cup ExampleDocs
    \cup FencedDocs

(***************************************************************************)
(* State.                                                                  *)
(***************************************************************************)
VARIABLES
    doc,                 \* in: the lines of the document
    scanErr,             \* in: scanner.Err() is non-nil after the last line
    failAt,              \* out: the sink rejects its failAt-th Write (0: none)
    out,                 \* out: the bytes the sink has accepted
    writes,              \* out: the number of Write calls made so far
    rejected,            \* out: the chunks of the Writes the sink rejected
    lineCount,           \* Render: lineCount
    codeBlockStartLine,  \* Render: codeBlockStartLine
    pc,                  \* "scan" | "runes" | "done"
    runeIndex,           \* renderLine: index in the line of the next rune
    lastEscape,          \* renderLine: lastEscape
    lastBold,            \* renderLine: lastBold
    lastCode,            \* renderLine: lastCode
    lastLink,            \* renderLine: lastLink
    linkContent,         \* renderLine: linkContent, as runes
    rlErr,               \* what the last renderLine call returned
    result,              \* what Render returned
    re,                  \* the Renderer the calls share
    call,                \* the Render call that is running, 1 or 2
    parked,              \* the other call's arguments and locals, if any
    alone                \* what the calls came to when each ran by itself

inVars == <<doc, scanErr, failAt>>
sinkVars == <<out, writes, rejected>>
blockVars == <<lineCount, codeBlockStartLine>>
trackers == <<lastEscape, lastBold, lastCode, lastLink, linkContent>>
\* what Render and renderLine never assign to: the receiver's fields and
\* whatever belongs to another call
outsideVars == <<re, call, parked, alone>>
vars ==
    <<doc, scanErr, failAt, out, writes, rejected, lineCount,
      codeBlockStartLine, pc,
      runeIndex, lastEscape, lastBold, lastCode, lastLink, linkContent,
      rlErr, result, re, call, parked, alone>>

(***************************************************************************)
(* Return values.                                                          *)
(***************************************************************************)
Running == [kind |-> "running"]
Nil == [kind |-> "nil"]
\* the error a rejected Write returned
IOError == [kind |-> "io"]
\* scanner.Err(): the reader failed, or a line was longer than the buffer
ScanError == [kind |-> "scan"]
\* a run-time panic: the call does not return
Panic == [kind |-> "panic"]
\* "unclosed code block (```) on line: %d"
UnclosedCodeBlock(l) == [kind |-> "unclosed code block", num |-> l]
\* "unclosed bold text (*) at position: %d"
UnclosedBold(p) == [kind |-> "unclosed bold text", num |-> p]
\* "unclosed code text (`) at position: %d"
UnclosedCode(p) == [kind |-> "unclosed code text", num |-> p]
\* "unclosed link ([) at position: %d"
UnclosedLink(p) == [kind |-> "unclosed link", num |-> p]
\* "Links must have a URL and a Label separated by a space. Instead found: %s"
MalformedLink(c) == [kind |-> "malformed link", content |-> c]
\* LineError counting the lines from 0
LineErrorFromZero(l, e) == [kind |-> "line", num |-> l - 1, inner |-> e]

\* fmt.Errorf("line %d: %w", lineCount, err)
LineError(l, e) == [kind |-> "line", num |-> l, inner |-> e]

(***************************************************************************)
(* The sink.                                                               *)
(***************************************************************************)
\* does the sink accept its k-th Write
SinkAccepts(k) == k # failAt

\* the sink after one Write of chunk c, from the sink state k
SinkWrite(k, c) ==
    IF SinkAccepts(k.writes + 1)
    THEN [out |-> k.out \o c, writes |-> k.writes + 1,
          rejected |-> k.rejected, ok |-> TRUE]
    ELSE [out |-> k.out, writes |-> k.writes + 1,
          rejected |-> Append(k.rejected, c), ok |-> FALSE]

\* the sink as it stands
Sink == [out |-> out, writes |-> writes, rejected |-> rejected, ok |-> TRUE]

\* the sink becomes k
SinkBecomes(k) ==
    /\ out' = k.out
    /\ writes' = k.writes
    /\ rejected' = k.rejected

\* Writes whose results the caller drops: every chunk is offered
RECURSIVE WriteIgnoring(_, _)
WriteIgnoring(k, chunks) ==
    IF chunks = <<>> THEN [k EXCEPT !.ok = TRUE]
    ELSE WriteIgnoring(SinkWrite(k, Head(chunks)), Tail(chunks))

\* Writes whose results the caller checks: stops at the first rejected one
RECURSIVE WriteChecked(_, _)
WriteChecked(k, chunks) ==
    IF chunks = <<>> THEN [k EXCEPT !.ok = TRUE]
    ELSE LET k1 == SinkWrite(k, Head(chunks))
         IN  IF k1.ok THEN WriteChecked(k1, Tail(chunks)) ELSE k1

\* NewRenderer (:46-58): the nine marker fields
NewRenderer ==
    [codeBlockStart |-> codeBlockStartString,
     codeBlockEnd   |-> codeBlockEndString,
     textBlockStart |-> textBlockStartString,
     textBlockEnd   |-> textBlockEndString,
     boldTextStart  |-> boldTextStartString,
     boldTextEnd    |-> boldTextEndString,
     codeTextStart  |-> codeTextStartString,
     codeTextEnd    |-> codeTextEndString,
     newline        |-> newlineString]

\* no other call
NoCall == [pc |-> "none"]

Init ==
    /\ doc \in Docs
    /\ scanErr \in BOOLEAN
    /\ failAt \in 0..MaxFailAt
    /\ out = <<>>
    /\ writes = 0
    /\ rejected = <<>>
    /\ lineCount = 0
    /\ codeBlockStartLine = -1
    /\ pc = "scan"
    /\ runeIndex = 0
    /\ lastEscape = -1
    /\ lastBold = -1
    /\ lastCode = -1
    /\ lastLink = -1
    /\ linkContent = <<>>
    /\ rlErr = Running
    /\ result = Running
    /\ re = NewRenderer
    /\ call = 1
    /\ parked = NoCall
    /\ alone = <<>>

(***************************************************************************)
(* Renderer.Render (src/rnzml.go:62-112).                                  *)
(***************************************************************************)
\* scanner.Scan() has another line to give
HasLine == pc = "scan" /\ lineCount < Len(doc)
\* the line Scan gives next, and the line being rendered
NextLine == doc[lineCount + 1]
Line == doc[lineCount]

\* Render returns e from inside its loop
RenderReturns(e) == pc' = "done" /\ result' = e

\* ToggleCodeBlock that opens a block and never closes it
ToggleCodeBlockOpenOnly(start, l) == l

\* :71-77, the new value of codeBlockStartLine at a fence line
ToggleCodeBlock(start, l) == IF start = -1 THEN l ELSE -1

\* IsTextBlockLine sending the lines inside a fence to renderLine as well
IsTextBlockLineInFence(start, line) == line # <<>>

\* :83, does a non-fence line go to renderLine
IsTextBlockLine(start, line) == start = -1 /\ line # <<>>

\* RenderEnd reporting the line the document ends on, not the fence's
RenderEndAtLastLine(start) ==
    IF scanErr THEN ScanError
    ELSE IF start # -1 THEN UnclosedCodeBlock(lineCount)
    ELSE Nil

\* :105-111, Render's result once scanner.Scan() returns false
RenderEnd(start) ==
    IF scanErr THEN ScanError
    ELSE IF start # -1 THEN UnclosedCodeBlock(start)
    ELSE Nil

\* :70-81, a line equal to "```"
FenceLine ==
    /\ HasLine
    /\ NextLine = fenceLine
    /\ LET w == WriteChecked(Sink,
                    <<IF codeBlockStartLine = -1
                      THEN re.codeBlockStart ELSE re.codeBlockEnd>>)
       IN  /\ lineCount' = lineCount + 1
           /\ codeBlockStartLine' =
                  ToggleCodeBlock(codeBlockStartLine, lineCount + 1)
           /\ SinkBecomes(w)
           /\ IF w.ok THEN UNCHANGED <<pc, result>>
                      ELSE RenderReturns(IOError)
    /\ UNCHANGED <<inVars, outsideVars, runeIndex, trackers, rlErr>>

\* :96-102, "Write a code block line"
CodeBlockLine ==
    /\ HasLine
    /\ NextLine # fenceLine
    /\ ~IsTextBlockLine(codeBlockStartLine, NextLine)
    /\ LET e == WriteIgnoring(Sink, HTMLEscape(LineBytes(NextLine)))
           w == WriteChecked(e, <<re.newline>>)
       IN  /\ lineCount' = lineCount + 1
           /\ SinkBecomes(w)
           /\ IF w.ok THEN UNCHANGED <<pc, result>>
                      ELSE RenderReturns(IOError)
    /\ UNCHANGED <<inVars, outsideVars, codeBlockStartLine, runeIndex,
                   trackers, rlErr>>

\* :83-89 and :115-133, "Write a text block line": <p>, then renderLine
\* starts with fresh trackers and an empty linkContent
TextBlockStart ==
    /\ HasLine
    /\ NextLine # fenceLine
    /\ IsTextBlockLine(codeBlockStartLine, NextLine)
    /\ LET w == WriteChecked(Sink, <<re.textBlockStart>>)
       IN  /\ lineCount' = lineCount + 1
           /\ SinkBecomes(w)
           /\ IF w.ok
              THEN /\ pc' = "runes"
                   /\ runeIndex' = 1
                   /\ lastEscape' = -1
                   /\ lastBold' = -1
                   /\ lastCode' = -1
                   /\ lastLink' = -1
                   /\ linkContent' = <<>>
                   /\ rlErr' = Running
                   /\ UNCHANGED result
              ELSE /\ RenderReturns(IOError)
                   /\ UNCHANGED <<runeIndex, trackers, rlErr>>
    /\ UNCHANGED <<inVars, outsideVars, codeBlockStartLine>>

\* :105-111, scanner.Scan() returns false
ScanEnd ==
    /\ pc = "scan"
    /\ lineCount = Len(doc)
    /\ RenderReturns(RenderEnd(codeBlockStartLine))
    /\ UNCHANGED <<inVars, outsideVars, sinkVars, blockVars, runeIndex,
                   trackers, rlErr>>

(***************************************************************************)
(* Renderer.renderLine (src/rnzml.go:115-220), one action per branch of    *)
(* the loop over the runes, and Render's handling of what it returns       *)
(* (:89-95).                                                               *)
(***************************************************************************)
\* the loop `for n, r := range line` has a rune left
InRunes == pc = "runes" /\ runeIndex <= Len(Line)
\* the loop variables r and n
r == Line[runeIndex]
n == ByteOffset(Line, runeIndex)

\* :119, utf8.EncodeRune(runeBuffer, r) indexes runeBuffer up to the last
\* byte of the encoding: out of range when the buffer is shorter
EncodeRunePanics(c) == RuneLen(c) > Len(runeBuffer)

\* :118-121, writeEscapedRune once the rune is encoded
writeEscapedRune(k, c) == WriteIgnoring(k, HTMLEscape(EncodeRune(c)))

\* renderLine returns the error e and Render wraps it (:89-91)
RenderLineFails(e) ==
    /\ rlErr' = e
    /\ RenderReturns(LineError(lineCount, e))

\* on to the next rune
Advance ==
    /\ runeIndex' = runeIndex + 1
    /\ UNCHANGED <<pc, rlErr, result>>

\* the goroutine panics inside renderLine
Panics ==
    /\ RenderReturns(Panic)
    /\ UNCHANGED <<sinkVars, runeIndex, rlErr>>

\* :136-143, "Always check for escape first"
RuneEscaped ==
    /\ InRunes
    /\ lastEscape > -1
    /\ IF lastLink > -1
       THEN /\ linkContent' = Append(linkContent, r)
            /\ lastEscape' = -1
            /\ Advance
            /\ UNCHANGED sinkVars
       ELSE IF EncodeRunePanics(r)
       THEN /\ Panics
            /\ UNCHANGED <<lastEscape, linkContent>>
       ELSE LET w == writeEscapedRune(Sink, r)
            IN  /\ SinkBecomes(w)
                /\ lastEscape' = -1
                /\ Advance
                /\ UNCHANGED linkContent
    /\ UNCHANGED <<inVars, outsideVars, blockVars, lastBold, lastCode,
                   lastLink>>

\* CloseLink without linkContent.Reset()
CloseLinkKeepingContent ==
    LET parts == SplitN2(linkContent)
    IN  /\ lastLink' = -1
        /\ IF Len(parts) # 2
           THEN /\ RenderLineFails(MalformedLink(linkContent))
                /\ UNCHANGED <<sinkVars, runeIndex, linkContent>>
           ELSE LET w == WriteChecked(Sink,
                                      linkTemplate(parts[1], parts[2]))
                IN  /\ SinkBecomes(w)
                    /\ IF w.ok
                       THEN /\ linkContent' = linkContent
                            /\ Advance
                       ELSE /\ RenderLineFails(IOError)
                            /\ UNCHANGED <<runeIndex, linkContent>>

\* :147-163, ']' ends the link
CloseLink ==
    LET parts == SplitN2(linkContent)
    IN  /\ lastLink' = -1
        /\ IF Len(parts) # 2
           THEN /\ RenderLineFails(MalformedLink(linkContent))
                /\ UNCHANGED <<sinkVars, runeIndex, linkContent>>
           ELSE LET w == WriteChecked(Sink,
                                      linkTemplate(parts[1], parts[2]))
                IN  /\ SinkBecomes(w)
                    /\ IF w.ok
                       THEN /\ linkContent' = <<>>
                            /\ Advance
                       ELSE /\ RenderLineFails(IOError)
                            /\ UNCHANGED <<runeIndex, linkContent>>

\* AppendToLink letting '[' start the link afresh inside a link
AppendToLinkReopening ==
    /\ IF r = OpenBracket
       THEN linkContent' = <<>> /\ lastLink' = n
       ELSE linkContent' = Append(linkContent, r) /\ UNCHANGED lastLink
    /\ Advance
    /\ UNCHANGED <<sinkVars, lastEscape>>

\* :164-167, "Write current rune to current link"
AppendToLink ==
    /\ linkContent' = Append(linkContent, r)
    /\ Advance
    /\ UNCHANGED <<sinkVars, lastEscape, lastLink>>

\* :144-167, inside a link
RuneInLink ==
    /\ InRunes
    /\ ~(lastEscape > -1)
    /\ lastLink > -1
    /\ IF r = Backslash
       THEN /\ lastEscape' = n
            /\ Advance
            /\ UNCHANGED <<sinkVars, lastLink, linkContent>>
       ELSE IF r = CloseBracket
       THEN /\ CloseLink
            /\ UNCHANGED lastEscape
       ELSE AppendToLink
    /\ UNCHANGED <<inVars, outsideVars, blockVars, lastBold, lastCode>>

\* RuneInCode letting '[' open a link inside inline code
RuneInCodeOpeningLinks ==
    /\ InRunes
    /\ ~(lastEscape > -1)
    /\ ~(lastLink > -1)
    /\ lastCode > -1
    /\ IF r = Backslash
       THEN /\ lastEscape' = n
            /\ Advance
            /\ UNCHANGED <<sinkVars, lastCode, lastLink>>
       ELSE IF r = Backtick
       THEN LET w == WriteChecked(Sink, <<re.codeTextEnd>>)
            IN  /\ SinkBecomes(w)
                /\ UNCHANGED <<lastEscape, lastLink>>
                /\ IF w.ok
                   THEN /\ lastCode' = -1
                        /\ Advance
                   ELSE /\ RenderLineFails(IOError)
                        /\ UNCHANGED <<runeIndex, lastCode>>
       ELSE IF r = OpenBracket
       THEN /\ lastLink' = n
            /\ Advance
            /\ UNCHANGED <<sinkVars, lastEscape, lastCode>>
       ELSE IF EncodeRunePanics(r)
       THEN /\ Panics
            /\ UNCHANGED <<lastEscape, lastCode, lastLink>>
       ELSE LET w == writeEscapedRune(Sink, r)
            IN  /\ SinkBecomes(w)
                /\ Advance
                /\ UNCHANGED <<lastEscape, lastCode, lastLink>>
    /\ UNCHANGED <<inVars, outsideVars, blockVars, lastBold, linkContent>>

\* RuneInCode in which '*' opens and closes bold as in default mode
RuneInCodeTogglingBold ==
    /\ InRunes
    /\ ~(lastEscape > -1)
    /\ ~(lastLink > -1)
    /\ lastCode > -1
    /\ IF r = Backslash
       THEN /\ lastEscape' = n
            /\ Advance
            /\ UNCHANGED <<sinkVars, lastCode, lastBold>>
       ELSE IF r = Backtick
       THEN LET w == WriteChecked(Sink, <<re.codeTextEnd>>)
            IN  /\ SinkBecomes(w)
                /\ UNCHANGED <<lastEscape, lastBold>>
                /\ IF w.ok
                   THEN /\ lastCode' = -1
                        /\ Advance
                   ELSE /\ RenderLineFails(IOError)
                        /\ UNCHANGED <<runeIndex, lastCode>>
       ELSE IF r = Star
       THEN LET w == WriteChecked(Sink,
                         <<IF lastBold < 0
                           THEN re.boldTextStart ELSE re.boldTextEnd>>)
            IN  /\ SinkBecomes(w)
                /\ UNCHANGED <<lastEscape, lastCode>>
                /\ IF w.ok
                   THEN /\ lastBold' = IF lastBold < 0 THEN n ELSE -1
                        /\ Advance
                   ELSE /\ RenderLineFails(IOError)
                        /\ UNCHANGED <<runeIndex, lastBold>>
       ELSE IF EncodeRunePanics(r)
       THEN /\ Panics
            /\ UNCHANGED <<lastEscape, lastCode, lastBold>>
       ELSE LET w == writeEscapedRune(Sink, r)
            IN  /\ SinkBecomes(w)
                /\ Advance
                /\ UNCHANGED <<lastEscape, lastCode, lastBold>>
    /\ UNCHANGED <<inVars, outsideVars, blockVars, lastLink, linkContent>>

\* :168-178, inside inline code
RuneInCode ==
    /\ InRunes
    /\ ~(lastEscape > -1)
    /\ ~(lastLink > -1)
    /\ lastCode > -1
    /\ IF r = Backslash
       THEN /\ lastEscape' = n
            /\ Advance
            /\ UNCHANGED <<sinkVars, lastCode>>
       ELSE IF r = Backtick
       THEN LET w == WriteChecked(Sink, <<re.codeTextEnd>>)
            IN  /\ SinkBecomes(w)
                /\ UNCHANGED lastEscape
                /\ IF w.ok
                   THEN /\ lastCode' = -1
                        /\ Advance
                   ELSE /\ RenderLineFails(IOError)
                        /\ UNCHANGED <<runeIndex, lastCode>>
       ELSE IF EncodeRunePanics(r)
       THEN /\ Panics
            /\ UNCHANGED <<lastEscape, lastCode>>
       ELSE LET w == writeEscapedRune(Sink, r)
            IN  /\ SinkBecomes(w)
                /\ Advance
                /\ UNCHANGED <<lastEscape, lastCode>>
    /\ UNCHANGED <<inVars, outsideVars, blockVars, lastBold, lastLink,
                   linkContent>>

\* ToggleBold writing the start marker at every '*'
ToggleBoldNeverClosing ==
    LET w == WriteChecked(Sink, <<re.boldTextStart>>)
    IN  /\ SinkBecomes(w)
        /\ IF w.ok
           THEN /\ lastBold' = IF lastBold < 0 THEN n ELSE -1
                /\ Advance
           ELSE /\ RenderLineFails(IOError)
                /\ UNCHANGED <<runeIndex, lastBold>>

\* :183-194, '*' starts or ends bold text
ToggleBold ==
    LET w == WriteChecked(Sink,
                 <<IF lastBold < 0
                   THEN re.boldTextStart ELSE re.boldTextEnd>>)
    IN  /\ SinkBecomes(w)
        /\ IF w.ok
           THEN /\ lastBold' = IF lastBold < 0 THEN n ELSE -1
                /\ Advance
           ELSE /\ RenderLineFails(IOError)
                /\ UNCHANGED <<runeIndex, lastBold>>

\* :179-206, no link and no inline code open
RuneDefault ==
    /\ InRunes
    /\ ~(lastEscape > -1)
    /\ ~(lastLink > -1)
    /\ ~(lastCode > -1)
    /\ IF r = Backslash
       THEN /\ lastEscape' = n
            /\ Advance
            /\ UNCHANGED <<sinkVars, lastBold, lastCode, lastLink>>
       ELSE IF r = Star
       THEN /\ ToggleBold
            /\ UNCHANGED <<lastEscape, lastCode, lastLink>>
       ELSE IF r = Backtick
       THEN LET w == WriteChecked(Sink, <<re.codeTextStart>>)
            IN  /\ SinkBecomes(w)
                /\ UNCHANGED <<lastEscape, lastBold, lastLink>>
                /\ IF w.ok
                   THEN /\ lastCode' = n
                        /\ Advance
                   ELSE /\ RenderLineFails(IOError)
                        /\ UNCHANGED <<runeIndex, lastCode>>
       ELSE IF r = OpenBracket
       THEN /\ lastLink' = n
            /\ Advance
            /\ UNCHANGED <<sinkVars, lastEscape, lastBold, lastCode>>
       ELSE IF EncodeRunePanics(r)
       THEN /\ Panics
            /\ UNCHANGED <<lastEscape, lastBold, lastCode, lastLink>>
       ELSE LET w == writeEscapedRune(Sink, r)
            IN  /\ SinkBecomes(w)
                /\ Advance
                /\ UNCHANGED <<lastEscape, lastBold, lastCode, lastLink>>
    /\ UNCHANGED <<inVars, outsideVars, blockVars, linkContent>>

\* renderLineEnd without its last check
renderLineEndNoLinkCheck ==
    IF lastBold > -1 THEN UnclosedBold(lastBold)
    ELSE IF lastCode > -1 THEN UnclosedCode(lastCode)
    ELSE Nil

\* renderLineEnd treating a pending escape as one more unclosed control
renderLineEndEscapeCheck ==
    IF lastEscape > -1 THEN [kind |-> "unclosed escape", num |-> lastEscape]
    ELSE IF lastBold > -1 THEN UnclosedBold(lastBold)
    ELSE IF lastCode > -1 THEN UnclosedCode(lastCode)
    ELSE IF lastLink > -1 THEN UnclosedLink(lastLink)
    ELSE Nil

\* renderLineEnd looking at the link first and at bold last
renderLineEndLinkFirst ==
    IF lastLink > -1 THEN UnclosedLink(lastLink)
    ELSE IF lastCode > -1 THEN UnclosedCode(lastCode)
    ELSE IF lastBold > -1 THEN UnclosedBold(lastBold)
    ELSE Nil

\* :209-219, "Check for any unclosed control characters"
renderLineEnd ==
    IF lastBold > -1 THEN UnclosedBold(lastBold)
    ELSE IF lastCode > -1 THEN UnclosedCode(lastCode)
    ELSE IF lastLink > -1 THEN UnclosedLink(lastLink)
    ELSE Nil

\* :209-219 and :89-95, renderLine returns after the last rune and Render
\* wraps its error or writes "\n</p>\n"
LineEnd ==
    /\ pc = "runes"
    /\ runeIndex > Len(Line)
    /\ IF renderLineEnd # Nil
       THEN /\ RenderLineFails(renderLineEnd)
            /\ UNCHANGED sinkVars
       ELSE LET w == WriteChecked(Sink, <<re.textBlockEnd>>)
            IN  /\ rlErr' = Nil
                /\ SinkBecomes(w)
                /\ IF w.ok THEN pc' = "scan" /\ UNCHANGED result
                           ELSE RenderReturns(IOError)
    /\ UNCHANGED <<inVars, outsideVars, blockVars, runeIndex, trackers>>

Next ==
    \/ FenceLine
    \/ CodeBlockLine
    \/ TextBlockStart
    \/ ScanEnd
    \/ RuneEscaped
    \/ RuneInLink
    \/ RuneInCode
    \/ RuneDefault
    \/ LineEnd

Spec == Init /\ [][Next]_vars

\* the variables hold values of the right shape
TypeOK ==
    /\ doc \in Docs
    /\ scanErr \in BOOLEAN
    /\ failAt \in 0..MaxFailAt
    /\ \A i \in 1..Len(out) : out[i] \in 0..255
    /\ writes \in Nat
    /\ Len(rejected) = (IF failAt > 0 /\ writes >= failAt THEN 1 ELSE 0)
    /\ lineCount \in 0..Len(doc)
    /\ codeBlockStartLine \in {-1} \cup 1..Len(doc)
    /\ pc \in {"scan", "runes", "done"}
    /\ (pc = "done") = (result # Running)

(***************************************************************************)
(* Helpers of the properties.                                              *)
(***************************************************************************)
IsPrefix(s, t) == Len(s) <= Len(t) /\ SubSeq(t, 1, Len(s)) = s

EndsWith(s, suffix) ==
    Len(suffix) <= Len(s) /\ OccursAt(s, suffix, Len(s) - Len(suffix) + 1)

\* number of places where pat occurs in s
Count(s, pat) == Cardinality({i \in 1..Len(s) : OccursAt(s, pat, i)})

\* the indices of the fence lines of a document
FenceLines(d) == {i \in 1..Len(d) : d[i] = fenceLine}

Max(S) == CHOOSE x \in S : \A y \in S : y <= x

\* Render did not reach the end of the document: it returned from inside
\* its loop, panicked, or the scanner failed
StoppedEarly == result.kind \in {"io", "line", "panic", "scan"}

(***************************************************************************)
(* C1.  A blank line read outside a code fence leaves the output as it     *)
(* was: it adds no byte, in particular no newline (stated for a sink that  *)
(* accepts every write).                                                   *)
(***************************************************************************)
C1_BlankLineEmitsNothing ==
    [][(failAt = 0 /\ HasLine /\ codeBlockStartLine = -1 /\ NextLine = <<>>)
          => out' = out]_vars

(***************************************************************************)
(* C2.  When the document ends with a fence open (an odd number of fence   *)
(* lines, no line or read failed before) Render returns the unclosed code  *)
(* block error carrying the 1-based number of the last fence line.         *)
(***************************************************************************)
C2_UnclosedFenceReported ==
    (pc = "done" /\ ~StoppedEarly /\ Cardinality(FenceLines(doc)) % 2 = 1)
        => result = [kind |-> "unclosed code block",
                     num |-> Max(FenceLines(doc))]

\* a closed fence, then a fence opened on line 5 of 6 and never closed
C2_Witness ==
    /\ pc = "done"
    /\ failAt = 0
    /\ ~scanErr
    /\ Len(doc) = 6
    /\ FenceLines(doc) = {2, 4, 5}
    /\ result = UnclosedCodeBlock(5)

(***************************************************************************)
(* C3.  When renderLine fails, Render returns "line N: " and the inner     *)
(* error, N the 1-based number of the line being rendered, every line      *)
(* before it counted; Render stops there: no later line is read, the       *)
(* paragraph end marker is not written, and what was written stays.        *)
(***************************************************************************)
\* the rune of a line that starts at byte offset p
RuneAtOffset(line, p) ==
    {line[i] : i \in {j \in 1..Len(line) : ByteOffset(line, j) = p}}

\* the inner error names a control character that line really holds there
ErrorPointsInto(line, e) ==
    CASE e.kind = "unclosed bold text" -> RuneAtOffset(line, e.num) = {Star}
      [] e.kind = "unclosed code text" ->
             RuneAtOffset(line, e.num) = {Backtick}
      [] e.kind = "unclosed link" ->
             RuneAtOffset(line, e.num) = {OpenBracket}
      [] e.kind = "malformed link" ->
             \E i \in 1..Len(line) : line[i] = CloseBracket
      [] OTHER -> TRUE

\* "</p>"
paragraphClose == <<60, 47, 112, 62>>

renderLineFailed == rlErr \notin {Running, Nil}

C3_ReturnedLineError ==
    (pc = "done" /\ renderLineFailed) =>
        /\ result = [kind |-> "line", num |-> lineCount, inner |-> rlErr]
        /\ lineCount \in 1..Len(doc)
        /\ doc[lineCount] \notin {<<>>, fenceLine}
        /\ ErrorPointsInto(doc[lineCount], rlErr)
        /\ (failAt = 0 =>
               Count(out, paragraphClose) + 1
                   = Count(out, textBlockStartString))

C3_StopsAtFailure ==
    (rlErr = Running /\ rlErr' \notin {Running, Nil}) =>
        /\ pc' = "done"
        /\ lineCount' = lineCount
        /\ IsPrefix(out, out')
        /\ ~EndsWith(out', textBlockEndString)

C3_InlineErrorWrapped ==
    [](C3_ReturnedLineError) /\ [][C3_StopsAtFailure]_vars

\* line 5 of 6 fails after a blank line, two fence lines and a fenced line
C3_Witness ==
    /\ pc = "done"
    /\ failAt = 0
    /\ Len(doc) = 6
    /\ doc[1] = <<>>
    /\ FenceLines(doc) = {2, 4}
    /\ result = LineError(5, UnclosedBold(1))
    /\ lineCount = 5

(***************************************************************************)
(* C4.  A link closed by ']' whose content does not split on its first     *)
(* space into a non-empty URL and a non-empty Label is rejected with the   *)
(* malformed link error and writes nothing (stated for a sink that accepts *)
(* every write).                                                           *)
(***************************************************************************)
\* the first space is neither missing, nor first, nor last
SplitsIntoURLAndLabel(content) ==
    /\ IndexOf(content, Space) > 1
    /\ IndexOf(content, Space) < Len(content)

ClosingLink ==
    InRunes /\ ~(lastEscape > -1) /\ lastLink > -1 /\ r = CloseBracket

C4_MalformedLinkRejected ==
    [][(failAt = 0 /\ ClosingLink /\ ~SplitsIntoURLAndLabel(linkContent))
          => (rlErr'.kind = "malformed link" /\ out' = out)]_vars

(***************************************************************************)
(* C5.  renderLine returns nil only with bold, inline code and link all    *)
(* closed; reaching the end of a line with one of them open, it returns    *)
(* an Unclosed error of a construct that is open.                          *)
(***************************************************************************)
AtEndOfLine == runeIndex > Len(Line)

C5_SuccessMeansAllClosed ==
    /\ rlErr = Nil => (lastBold = -1 /\ lastCode = -1 /\ lastLink = -1)
    /\ (pc = "done" /\ rlErr # Running /\ rlErr # Nil /\ AtEndOfLine) =>
           \/ (lastBold > -1 /\ rlErr.kind = "unclosed bold text")
           \/ (lastCode > -1 /\ rlErr.kind = "unclosed code text")
           \/ (lastLink > -1 /\ rlErr.kind = "unclosed link")

\* a line that opened and closed bold, inline code and a link was rendered
C5_Witness ==
    /\ rlErr = Nil
    /\ failAt = 0
    /\ Contains(out, boldTextEndString)
    /\ Contains(out, codeTextEndString)
    /\ Contains(out, <<60, 47, 97, 62>>)

(***************************************************************************)
(* C6.  Once the sink has rejected a write (here: one that carried bytes), *)
(* Render has returned an error and has made no further write.             *)
(***************************************************************************)
C6_WriteFailureAborts ==
    (rejected # <<>> /\ rejected[1] # <<>>) =>
        /\ pc = "done"
        /\ result.kind \in {"io", "line"}
        /\ writes = failAt

(***************************************************************************)
(* C7.  Every rune consumed as ordinary or escaped text outside a link,    *)
(* whatever the length of its encoding, is written HTML-escaped and the    *)
(* pass goes on to the next rune; rendering never panics.                  *)
(***************************************************************************)
ConsumedAsText ==
    /\ InRunes
    /\ ~(lastLink > -1)
    /\ \/ lastEscape > -1
       \/ (lastCode > -1 /\ r \notin {Backslash, Backtick})
       \/ (~(lastCode > -1)
              /\ r \notin {Backslash, Star, Backtick, OpenBracket})

C7_EveryRuneHandled ==
    [][ConsumedAsText =>
          /\ result' # Panic
          /\ pc' = "runes"
          /\ runeIndex' = runeIndex + 1
          /\ (failAt = 0 =>
                 out' = out \o HTMLEscapeString(EncodeRune(r)))]_vars

(***************************************************************************)
(* C8.  With an escape pending the next rune, whichever it is, is data:    *)
(* it is written HTML-escaped, or appended to linkContent inside a link;   *)
(* the pending escape is cleared; bold, code and link stay as they were.   *)
(***************************************************************************)
C8_EscapedRuneIsData ==
    [][(InRunes /\ lastEscape > -1) =>
          /\ lastEscape' = -1
          /\ UNCHANGED <<lastBold, lastCode, lastLink>>
          /\ IF lastLink > -1
             THEN linkContent' = Append(linkContent, r) /\ out' = out
             ELSE /\ linkContent' = linkContent
                  /\ (failAt = 0 =>
                         out' = out \o HTMLEscapeString(EncodeRune(r)))]_vars

(***************************************************************************)
(* C9.  An unescaped '\' writes nothing, and a line that ends with the     *)
(* escape still pending is judged by bold, code and link alone: nil when   *)
(* all three are closed, an Unclosed error otherwise; the line "\" alone   *)
(* renders to an empty paragraph.                                          *)
(***************************************************************************)
UnescapedBackslash == InRunes /\ ~(lastEscape > -1) /\ r = Backslash

EndsWithEscapePending == pc = "runes" /\ AtEndOfLine /\ lastEscape > -1

C9_Step ==
    /\ UnescapedBackslash => UNCHANGED sinkVars
    /\ EndsWithEscapePending =>
           IF lastBold = -1 /\ lastCode = -1 /\ lastLink = -1
           THEN rlErr' = Nil
           ELSE rlErr'.kind \in {"unclosed bold text", "unclosed code text",
                                 "unclosed link"}

C9_LoneBackslash ==
    (doc = << <<Backslash>> >> /\ failAt = 0 /\ ~scanErr /\ pc = "done") =>
        (result = Nil /\ out = textBlockStartString \o textBlockEndString)

C9_TrailingEscapeIsNoError == [](C9_LoneBackslash) /\ [][C9_Step]_vars

\* a line ending in a pending escape was rendered without error
C9_Witness == rlErr = Nil /\ lastEscape > -1 /\ Len(Line) > 1 /\ failAt = 0

(***************************************************************************)
(* C10.  Inside a link every rune but '\' and ']' is appended to           *)
(* linkContent as it is, writes nothing and leaves bold and code alone.    *)
(***************************************************************************)
PlainRuneInLink ==
    /\ InRunes
    /\ ~(lastEscape > -1)
    /\ lastLink > -1
    /\ r \notin {Backslash, CloseBracket}

C10_LinkContentIsInert ==
    [][PlainRuneInLink =>
          /\ linkContent' = Append(linkContent, r)
          /\ UNCHANGED sinkVars
          /\ UNCHANGED <<lastBold, lastCode, lastLink, lastEscape>>]_vars

\* '*', '`' and '[' were read inside a link opened after bold
C10_Witness ==
    /\ pc = "runes"
    /\ lastLink > -1
    /\ lastBold > -1
    /\ Star \in {linkContent[i] : i \in 1..Len(linkContent)}
    /\ Backtick \in {linkContent[i] : i \in 1..Len(linkContent)}
    /\ OpenBracket \in {linkContent[i] : i \in 1..Len(linkContent)}

(***************************************************************************)
(* C11.  A well-formed link is cut at its first space: the URL is the      *)
(* content before it and holds no space, the Label is all that follows;    *)
(* the ']' writes `<a href="`, the URL escaped for an attribute, `">`,     *)
(* the Label escaped as element content and `</a>`, once, and nothing      *)
(* else (stated for a sink that accepts every write).  "[a a a]" renders   *)
(* to <a href="a">a a</a>, "[< <]" to <a href="%3c">&lt;</a> and           *)
(* "[a&b c]" to <a href="a&amp;b">c</a>.                                   *)
(***************************************************************************)
\* the content before the first space
URLOf(content) ==
    LET i == CHOOSE k \in 1..Len(content) :
                 content[k] = Space /\ \A j \in 1..(k - 1) : content[j] # Space
    IN  SubSeq(content, 1, i - 1)

\* the content after the first space
LabelOf(content) ==
    SubSeq(content, Len(URLOf(content)) + 2, Len(content))

\* `<a href="`, `">` and `</a>`
anchorOpen == <<60, 97, 32, 104, 114, 101, 102, 61, 34>>
anchorMid == <<34, 62>>
anchorClose == <<60, 47, 97, 62>>

\* the ']' of a well-formed link, the sink accepting every write
ClosesWellFormedLink ==
    failAt = 0 /\ ClosingLink /\ SplitsIntoURLAndLabel(linkContent)

\* the step writes the link once, with href as its attribute value
WritesLink(href) ==
    /\ \A i \in 1..Len(URLOf(linkContent)) : URLOf(linkContent)[i] # Space
    /\ out' = out \o anchorOpen \o href \o anchorMid
                  \o htmlEscaper(LabelOf(linkContent)) \o anchorClose
    /\ writes' = writes + 5
    /\ lastLink' = -1
    /\ rlErr' = Running

C11_Step ==
    ClosesWellFormedLink =>
        WritesLink(attrEscaper(urlNormalizer(LineBytes(URLOf(linkContent)))))

C11_Examples ==
    (pc = "done" /\ failAt = 0 /\ ~scanErr) =>
        /\ doc = << <<91, 97, 32, 97, 32, 97, 93>> >> =>
               out = textBlockStartString \o anchorOpen \o <<97>> \o anchorMid
                         \o <<97, 32, 97>> \o anchorClose
                         \o textBlockEndString
        /\ doc = << <<91, 60, 32, 60, 93>> >> =>
               out = textBlockStartString \o anchorOpen \o <<37, 51, 99>>
                         \o anchorMid \o <<38, 108, 116, 59>> \o anchorClose
                         \o textBlockEndString
        /\ doc = << <<91, 97, 38, 98, 32, 99, 93>> >> =>
               out = textBlockStartString \o anchorOpen
                         \o <<97, 38, 97, 109, 112, 59, 98>>
                         \o anchorMid \o <<99>> \o anchorClose
                         \o textBlockEndString

C11_LinkSplitOnFirstSpace == [](C11_Examples) /\ [][C11_Step]_vars

\* What holds instead: the href is the escaped URL when the URL has no
\* protocol or one of http, https and mailto (in any case, U+017F counting
\* as 's'), and "#ZgotmplZ" otherwise; the split is at the first space in
\* both cases.  "[httpU+017F:x y]" renders to <a href="http%c5%bf:x">y</a>.
C11_StepFiltered ==
    ClosesWellFormedLink =>
        WritesLink(attrEscaper(urlNormalizer(LineBytes(
            IF isSafeURL(URLOf(linkContent))
            THEN URLOf(linkContent) ELSE filterFailsafe))))

C11_ExamplesFiltered ==
    (pc = "done" /\ failAt = 0 /\ ~scanErr) =>
        /\ doc = << <<91, 104, 116, 116, 112, 383, 58, 120, 32, 121, 93>> >>
               => out = textBlockStartString \o anchorOpen
                            \o <<104, 116, 116, 112, 37, 99, 53, 37, 98, 102,
                                 58, 120>>
                            \o anchorMid \o <<121>> \o anchorClose
                            \o textBlockEndString
        /\ doc = << <<91, 102, 116, 112, 58, 120, 32, 121, 93>> >>
               => out = textBlockStartString \o anchorOpen
                            \o <<35, 90, 103, 111, 116, 109, 112, 108, 90>>
                            \o anchorMid \o <<121>> \o anchorClose
                            \o textBlockEndString

C11_LinkWrittenFiltered ==
    [](C11_Examples /\ C11_ExamplesFiltered) /\ [][C11_StepFiltered]_vars

(***************************************************************************)
(* C12.  Each line equal to "```" flips the block mode and writes one      *)
(* fence marker and nothing else: <pre><code> at the 1st, 3rd, ... fence   *)
(* line of the document, </code></pre>\n at the 2nd, 4th, ...; so the      *)
(* markers in the output alternate, starting with <pre><code>, and a       *)
(* fence line that directly follows the fence line opening a block leaves  *)
(* the output ending in <pre><code></code></pre>\n (stated for a sink      *)
(* that accepts every write).                                              *)
(***************************************************************************)
\* the number of fence lines among the first k lines of the document
FencesRead(k) == Cardinality({i \in FenceLines(doc) : i <= k})

C12_Step ==
    (failAt = 0 /\ HasLine /\ NextLine = fenceLine) =>
        /\ out' = out \o (IF FencesRead(lineCount) % 2 = 0
                          THEN codeBlockStartString ELSE codeBlockEndString)
        /\ (codeBlockStartLine' = -1) = (codeBlockStartLine # -1)
        /\ pc' = "scan"

C12_Alternation ==
    failAt = 0 =>
        /\ (codeBlockStartLine # -1) = (FencesRead(lineCount) % 2 = 1)
        /\ Count(out, codeBlockStartString) = (FencesRead(lineCount) + 1) \div 2
        /\ Count(out, codeBlockEndString) = FencesRead(lineCount) \div 2
        /\ (lineCount >= 2 /\ doc[lineCount] = fenceLine
               /\ doc[lineCount - 1] = fenceLine
               /\ FencesRead(lineCount) % 2 = 0) =>
               EndsWith(out, codeBlockStartString \o codeBlockEndString)
        /\ (doc = <<fenceLine, fenceLine>> /\ pc = "done" /\ ~scanErr) =>
               (result = [kind |-> "nil"]
                   /\ out = codeBlockStartString \o codeBlockEndString)

C12_FenceTogglesBlockMode == [](C12_Alternation) /\ [][C12_Step]_vars

\* three fence lines in a row: an empty block, then a block left open
C12_Witness ==
    /\ pc = "done"
    /\ failAt = 0
    /\ ~scanErr
    /\ doc = <<fenceLine, fenceLine, fenceLine>>
    /\ out = codeBlockStartString \o codeBlockEndString \o codeBlockStartString

(***************************************************************************)
(* C13.  A line other than "```" read while a fence is open, empty or      *)
(* not, whatever control characters it holds, is written as its            *)
(* HTML-escaped bytes and a newline: no '<' is written, so no <p>,         *)
(* <strong>, <code> or <a>; renderLine is not entered and no error is      *)
(* returned (stated for a sink that accepts every write).                  *)
(***************************************************************************)
FencedLine == HasLine /\ codeBlockStartLine # -1 /\ NextLine # fenceLine

C13_Step ==
    (failAt = 0 /\ FencedLine) =>
        /\ out' = out \o HTMLEscapeString(LineBytes(NextLine)) \o <<10>>
        /\ \A i \in (Len(out) + 1)..Len(out') : out'[i] # 60
        /\ pc' = "scan"
        /\ lineCount' = lineCount + 1
        /\ UNCHANGED <<codeBlockStartLine, rlErr, result>>

\* "```", "*<", "```" and "```", "[`", "```"
C13_Examples ==
    (pc = "done" /\ failAt = 0 /\ ~scanErr) =>
        /\ doc = <<fenceLine, <<42, 60>>, fenceLine>> =>
               /\ result = [kind |-> "nil"]
               /\ out = codeBlockStartString \o <<42, 38, 108, 116, 59, 10>>
                            \o codeBlockEndString
        /\ doc = <<fenceLine, <<91, 96>>, fenceLine>> =>
               /\ result = [kind |-> "nil"]
               /\ out = codeBlockStartString \o <<91, 96, 10>>
                            \o codeBlockEndString

C13_NoInlineInsideFence == [](C13_Examples) /\ [][C13_Step]_vars

\* an unclosed '[' and a two-byte rune went through a fence untouched
C13_Witness ==
    /\ pc = "done"
    /\ failAt = 0
    /\ doc = <<fenceLine, <<OpenBracket, 233>>, fenceLine>>
    /\ result = Nil
    /\ out = codeBlockStartString \o <<91, 195, 169, 10>> \o codeBlockEndString

(***************************************************************************)
(* C14.  A non-empty line other than "```" read outside a fence is a       *)
(* paragraph of its own: reading it writes <p> and starts renderLine at    *)
(* its first rune with no escape pending, bold, code and link closed and   *)
(* an empty linkContent, whatever the line before left behind; when        *)
(* renderLine returns nil, "\n</p>\n" is written before the next line is   *)
(* read.  So the output holds one <p> for each such line read and one      *)
(* </p> for each one rendered (stated for a sink that accepts every        *)
(* write; lines on which renderLine fails are the subject of C3 and C7).   *)
(***************************************************************************)
\* the text block lines among the first k lines of the document
TextLinesRead(k) ==
    {i \in 1..k : doc[i] \notin {<<>>, fenceLine} /\ FencesRead(i) % 2 = 0}

ReadsTextLine ==
    HasLine /\ codeBlockStartLine = -1 /\ NextLine \notin {<<>>, fenceLine}

C14_Step ==
    /\ (failAt = 0 /\ ReadsTextLine) =>
           /\ out' = out \o <<60, 112, 62>>
           /\ pc' = "runes"
           /\ lineCount' = lineCount + 1
           /\ runeIndex' = 1
           /\ lastEscape' = -1 /\ lastBold' = -1
           /\ lastCode' = -1 /\ lastLink' = -1
           /\ linkContent' = <<>>
    /\ (failAt = 0 /\ pc = "runes" /\ rlErr' = [kind |-> "nil"]) =>
           /\ out' = out \o <<10, 60, 47, 112, 62, 10>>
           /\ pc' = "scan"
           /\ lineCount' = lineCount

C14_Paragraphs ==
    failAt = 0 =>
        /\ Count(out, <<60, 112, 62>>) = Cardinality(TextLinesRead(lineCount))
        /\ Count(out, <<10, 60, 47, 112, 62, 10>>) =
               Cardinality(TextLinesRead(lineCount))
                   - (IF pc = "runes" \/ rlErr \notin {Running, Nil}
                         \/ result = Panic
                      THEN 1 ELSE 0)
        \* "a", "a" and "\", "*a*"
        /\ (pc = "done" /\ ~scanErr /\ doc = << <<97>>, <<97>> >>) =>
               out = <<60, 112, 62, 97, 10, 60, 47, 112, 62, 10,
                       60, 112, 62, 97, 10, 60, 47, 112, 62, 10>>
        /\ (pc = "done" /\ ~scanErr
               /\ doc = << <<Backslash>>, <<42, 97, 42>> >>) =>
               out = <<60, 112, 62, 10, 60, 47, 112, 62, 10, 60, 112, 62>>
                         \o boldTextStartString \o <<97>> \o boldTextEndString
                         \o <<10, 60, 47, 112, 62, 10>>

C14_LineIsOwnParagraph == [](C14_Paragraphs) /\ [][C14_Step]_vars

\* a line that ended with an escape pending, then a line that bold opens
C14_Witness ==
    /\ pc = "runes"
    /\ failAt = 0
    /\ lineCount = 2
    /\ doc[1] = <<Backslash>>
    /\ doc[2] = <<42, 97, 42>>
    /\ runeIndex = 2
    /\ lastBold = 0
    /\ lastEscape = -1
    /\ Count(out, <<60, 47, 112, 62>>) = 1

(***************************************************************************)
(* C15.  At the end of a line with more than one construct open the error  *)
(* names bold before inline code before link, and its position is the      *)
(* byte offset of the control character that opened the occurrence still   *)
(* open: each opener records the byte offset it stands at, each closer     *)
(* clears it.  "*[a a" reports unclosed bold at 0; "***" reports           *)
(* unclosed bold at 2, not 0; "**[U+00E9 a]*[" reports unclosed bold at    *)
(* byte 8, its eighth rune.                                                *)
(***************************************************************************)
\* the number of bytes the runes before rune i of the line take
BytesBefore(line, i) == Len(LineBytes(SubSeq(line, 1, i - 1)))

InDefaultMode ==
    InRunes /\ lastEscape = -1 /\ lastCode = -1 /\ lastLink = -1

C15_OpenerRecorded ==
    (failAt = 0 /\ InDefaultMode) =>
        /\ (r = Star /\ lastBold = -1) =>
               lastBold' = BytesBefore(Line, runeIndex)
        /\ (r = Star /\ lastBold > -1) => lastBold' = -1
        /\ r = Backtick => lastCode' = BytesBefore(Line, runeIndex)
        /\ r = OpenBracket => lastLink' = BytesBefore(Line, runeIndex)

C15_Priority ==
    (pc = "done" /\ renderLineFailed /\ rlErr # IOError /\ AtEndOfLine) =>
        /\ lastBold > -1 =>
               rlErr = [kind |-> "unclosed bold text", num |-> lastBold]
        /\ (lastBold = -1 /\ lastCode > -1) =>
               rlErr = [kind |-> "unclosed code text", num |-> lastCode]
        /\ (lastBold = -1 /\ lastCode = -1) =>
               rlErr = [kind |-> "unclosed link", num |-> lastLink]

C15_Examples ==
    (pc = "done" /\ failAt = 0) =>
        /\ doc = << <<42, 91, 97, 32, 97>> >> =>
               rlErr = [kind |-> "unclosed bold text", num |-> 0]
        /\ doc = << <<42, 42, 42>> >> =>
               rlErr = [kind |-> "unclosed bold text", num |-> 2]
        /\ doc = << <<42, 96, 91>> >> =>
               rlErr = [kind |-> "unclosed bold text", num |-> 0]
        /\ doc = << <<97, 96, 91>> >> =>
               rlErr = [kind |-> "unclosed code text", num |-> 1]
        /\ doc = << <<42, 42, 91, 233, 32, 97, 93, 42, 91>> >> =>
               rlErr = [kind |-> "unclosed bold text", num |-> 8]

C15_ErrorPriority ==
    [](C15_Priority /\ C15_Examples) /\ [][C15_OpenerRecorded]_vars

\* bold reopened after a link that held a two-byte rune, then a link opened
C15_Witness ==
    /\ pc = "done"
    /\ failAt = 0
    /\ doc = << <<42, 42, 91, 233, 32, 97, 93, 42, 91>> >>
    /\ lastBold = 8
    /\ lastLink = 9
    /\ result = [kind |-> "line", num |-> 1,
                 inner |-> [kind |-> "unclosed bold text", num |-> 8]]

(***************************************************************************)
(* Two Render calls on one Renderer (the tests share the package variable  *)
(* r, src/unnamed/part_000:9).  Each call has its own reader, its own      *)
(* writer and its own locals (src/rnzml.go:63-65, 117-133); the calls      *)
(* share the receiver re.  The variables above hold the call that is       *)
(* running, parked holds the other one, and the scheduler may switch       *)
(* between them before any step.  Before they run together, each call is   *)
(* run by itself on the same arguments and what it came to is kept in      *)
(* alone.                                                                  *)
(***************************************************************************)
\* the arguments and locals of the running call
Locals ==
    [doc |-> doc, scanErr |-> scanErr, failAt |-> failAt,
     out |-> out, writes |-> writes, rejected |-> rejected,
     lineCount |-> lineCount, codeBlockStartLine |-> codeBlockStartLine,
     pc |-> pc, runeIndex |-> runeIndex,
     lastEscape |-> lastEscape, lastBold |-> lastBold,
     lastCode |-> lastCode, lastLink |-> lastLink,
     linkContent |-> linkContent, rlErr |-> rlErr, result |-> result]

\* a call on entry to Render, as in Init
Fresh(d, e, f) ==
    [doc |-> d, scanErr |-> e, failAt |-> f,
     out |-> <<>>, writes |-> 0, rejected |-> <<>>,
     lineCount |-> 0, codeBlockStartLine |-> -1,
     pc |-> "scan", runeIndex |-> 0,
     lastEscape |-> -1, lastBold |-> -1, lastCode |-> -1, lastLink |-> -1,
     linkContent |-> <<>>, rlErr |-> Running, result |-> Running]

\* Resume with one linkContent for both calls, as a field of re would be
ResumeSharingLinkContent(c) ==
    /\ doc' = c.doc /\ scanErr' = c.scanErr /\ failAt' = c.failAt
    /\ out' = c.out /\ writes' = c.writes /\ rejected' = c.rejected
    /\ lineCount' = c.lineCount
    /\ codeBlockStartLine' = c.codeBlockStartLine
    /\ pc' = c.pc /\ runeIndex' = c.runeIndex
    /\ lastEscape' = c.lastEscape /\ lastBold' = c.lastBold
    /\ lastCode' = c.lastCode /\ lastLink' = c.lastLink
    /\ linkContent' = linkContent
    /\ rlErr' = c.rlErr /\ result' = c.result

\* call c runs on: its arguments and locals are the current ones
Resume(c) ==
    /\ doc' = c.doc /\ scanErr' = c.scanErr /\ failAt' = c.failAt
    /\ out' = c.out /\ writes' = c.writes /\ rejected' = c.rejected
    /\ lineCount' = c.lineCount
    /\ codeBlockStartLine' = c.codeBlockStartLine
    /\ pc' = c.pc /\ runeIndex' = c.runeIndex
    /\ lastEscape' = c.lastEscape /\ lastBold' = c.lastBold
    /\ lastCode' = c.lastCode /\ lastLink' = c.lastLink
    /\ linkContent' = c.linkContent
    /\ rlErr' = c.rlErr /\ result' = c.result

\* the documents of the two calls: links, an escape inside a link, bold
\* and inline code, a document with fences
ParDocs ==
    { << <<91, 97, 32, 97, 32, 97, 93>> >>,                 \* [a a a]
      << <<91, 97, 32, 92, 93, 93>> >>,                     \* [a \]]
      << <<42, 96, 42, 91, 96, 42>> >>,                     \* *`*[`*
      << <<42, 91, 97, 32, 42, 96, 91, 93, 42>> >>,         \* *[a *`[]*
      << <<>>, fenceLine, <<97>>, fenceLine, <<97, 42>>, <<97>> >> }

InitPar == Init /\ doc \in ParDocs

\* the first call has returned: the second one runs by itself
StartSecond ==
    /\ pc = "done"
    /\ Len(alone) = 0
    /\ alone' = <<Locals>>
    /\ call' = 2
    /\ \E d \in ParDocs, e \in BOOLEAN, f \in 0..MaxFailAt :
           Resume(Fresh(d, e, f))
    /\ UNCHANGED <<re, parked>>

\* the second call has returned: both are called again, to run together
StartBoth ==
    /\ pc = "done"
    /\ Len(alone) = 1
    /\ alone' = Append(alone, Locals)
    /\ call' = 1
    /\ Resume(Fresh(alone[1].doc, alone[1].scanErr, alone[1].failAt))
    /\ parked' = Fresh(doc, scanErr, failAt)
    /\ UNCHANGED re

\* the scheduler lets the other call run
Switch ==
    /\ Len(alone) = 2
    /\ parked.pc \notin {"none", "done"}
    /\ parked' = Locals
    /\ call' = 3 - call
    /\ Resume(parked)
    /\ UNCHANGED <<re, alone>>

NextPar == Next \/ StartSecond \/ StartBoth \/ Switch

SpecPar == InitPar /\ [][NextPar]_vars

(***************************************************************************)
(* C16.  Two Render calls that share a Renderer and run with their steps   *)
(* interleaved each write a prefix of what they write when run alone and   *)
(* return with exactly the output and the result of the run alone; a step  *)
(* of the running call leaves the other call's arguments and locals and    *)
(* the Renderer's fields as they were, and nothing ever assigns to the     *)
(* Renderer's fields.                                                      *)
(***************************************************************************)
\* call i, running or parked
Call(i) == IF call = i THEN Locals ELSE parked

RunTogether == Len(alone) = 2

C16_SameAsAlone ==
    RunTogether =>
        \A i \in {1, 2} :
            /\ Call(i).doc = alone[i].doc
            /\ Call(i).failAt = alone[i].failAt
            /\ IsPrefix(Call(i).out, alone[i].out)
            /\ Call(i).pc = "done" =>
                   /\ Call(i).out = alone[i].out
                   /\ Call(i).result = alone[i].result

C16_StepsApart ==
    /\ re' = re
    /\ (RunTogether /\ call' = call) => parked' = parked
    /\ (RunTogether /\ call' # call) => parked' = Locals

C16_CallsIndependent == [](C16_SameAsAlone) /\ [][C16_StepsApart]_vars

\* both calls are inside a link, each with a content of its own, and the
\* running one has been switched to
C16_Witness ==
    /\ RunTogether
    /\ call = 2
    /\ failAt = 0 /\ parked.failAt = 0
    /\ pc = "runes" /\ parked.pc = "runes"
    /\ lastLink > -1 /\ parked.lastLink > -1
    /\ Len(linkContent) > 1 /\ Len(parked.linkContent) > 1
    /\ linkContent # parked.linkContent
    /\ parked.doc # doc

(***************************************************************************)
(* C17.  Inline code and a link are never open together.  Each is opened   *)
(* only with neither open: a '[' read inside inline code leaves the link   *)
(* closed and a '`' read inside a link leaves inline code closed.  (Bold   *)
(* may be open with either: the state of C17_Witness and that of           *)
(* C10_Witness.)                                                           *)
(***************************************************************************)
C17_OneOfCodeAndLink == ~(lastCode > -1 /\ lastLink > -1)

C17_Step ==
    /\ (InRunes /\ lastEscape = -1 /\ lastCode > -1 /\ r = OpenBracket) =>
           (lastLink' = -1 /\ lastCode' = lastCode)
    /\ (InRunes /\ lastEscape = -1 /\ lastLink > -1 /\ r = Backtick) =>
           (lastCode' = -1 /\ lastLink' = lastLink)
    /\ (lastCode = -1 /\ lastCode' > -1) => (lastLink = -1 /\ lastLink' = -1)
    /\ (lastLink = -1 /\ lastLink' > -1) => (lastCode = -1 /\ lastCode' = -1)

C17_CodeAndLinkExclusive ==
    [](C17_OneOfCodeAndLink) /\ [][C17_Step]_vars

\* a '[' has just been read inside inline code, inside bold
C17_Witness ==
    /\ pc = "runes"
    /\ runeIndex > 1
    /\ Line[runeIndex - 1] = OpenBracket
    /\ lastCode > -1
    /\ lastBold > -1
    /\ lastLink = -1
    /\ lastEscape = -1

(***************************************************************************)
(* C18.  While renderLine runs, linkContent is empty whenever no link is   *)
(* open: it is empty when a '[' opens a link and empty again right after   *)
(* a link has been written.  At the ']' of a link linkContent holds the    *)
(* runes between that link's own '[' and the ']', escapes resolved, and    *)
(* nothing of an earlier link: "[a a][a a]" renders to the same link       *)
(* twice.                                                                  *)
(***************************************************************************)
RECURSIVE Unescape(_)
\* s without the backslashes that escape the rune after them
Unescape(s) ==
    IF s = <<>> THEN <<>>
    ELSE IF Head(s) # Backslash THEN <<Head(s)>> \o Unescape(Tail(s))
    ELSE IF Len(s) = 1 THEN <<>>
    ELSE <<s[2]>> \o Unescape(SubSeq(s, 3, Len(s)))

\* the index in the line of the '[' of the open link
OpenerIndex ==
    CHOOSE i \in 1..Len(Line) : BytesBefore(Line, i) = lastLink

C18_EmptyUnlessOpen ==
    /\ (pc = "runes" /\ lastLink = -1) => linkContent = <<>>
    /\ (pc = "runes" /\ lastLink > -1) =>
           /\ Line[OpenerIndex] = OpenBracket
           /\ linkContent =
                  Unescape(SubSeq(Line, OpenerIndex + 1, runeIndex - 1))
    /\ (pc = "done" /\ failAt = 0 /\ ~scanErr
           /\ doc = << <<91, 97, 32, 97, 93, 91, 97, 32, 97, 93>> >>) =>
           out = <<60, 112, 62>>
                     \o anchorOpen \o <<97>> \o anchorMid \o <<97>>
                     \o anchorClose
                     \o anchorOpen \o <<97>> \o anchorMid \o <<97>>
                     \o anchorClose
                     \o <<10, 60, 47, 112, 62, 10>>

C18_Step ==
    /\ (InDefaultMode /\ r = OpenBracket) =>
           (linkContent = <<>> /\ linkContent' = <<>> /\ lastLink' > -1)
    /\ (ClosingLink /\ rlErr' = Running) =>
           (linkContent' = <<>> /\ lastLink' = -1)

C18_LinkContentReset == [](C18_EmptyUnlessOpen) /\ [][C18_Step]_vars

\* at the ']' of the second link of "[a a][a a]", the first one written
C18_Witness ==
    /\ pc = "runes"
    /\ failAt = 0
    /\ doc = << <<91, 97, 32, 97, 93, 91, 97, 32, 97, 93>> >>
    /\ runeIndex = 10
    /\ lastLink = 5
    /\ linkContent = <<97, 32, 97>>
    /\ Contains(out, anchorClose)

(***************************************************************************)
(* C19.  With inline code open only '\' and '`' are control characters:    *)
(* any other rune leaves the escape, bold, code and link trackers as they  *)
(* were; '*', '[' and ']' are written as they are (HTML escaping leaves    *)
(* them alone) and the pass goes on; the '`' that closes the inline code   *)
(* leaves bold as it was.  "*`*[`*" renders to                             *)
(* <strong><code>*[</code></strong> (the output is stated for a sink that  *)
(* accepts every write).                                                   *)
(***************************************************************************)
InCode == InRunes /\ lastEscape = -1 /\ lastCode > -1

C19_Step ==
    /\ (InCode /\ r \notin {Backslash, Backtick}) =>
           UNCHANGED <<lastEscape, lastBold, lastCode, lastLink, linkContent>>
    /\ (InCode /\ r \in {Star, OpenBracket, CloseBracket}) =>
           /\ pc' = "runes"
           /\ runeIndex' = runeIndex + 1
           /\ failAt = 0 => out' = Append(out, r)
    /\ (InCode /\ r = Backtick) =>
           UNCHANGED <<lastBold, lastLink, linkContent>>

C19_Example ==
    (pc = "done" /\ failAt = 0 /\ ~scanErr
        /\ doc = << <<42, 96, 42, 91, 96, 42>> >>) =>
        /\ result = [kind |-> "nil"]
        /\ out = <<60, 112, 62>>
                     \o <<60, 115, 116, 114, 111, 110, 103, 62>>
                     \o <<60, 99, 111, 100, 101, 62>>
                     \o <<42, 91>>
                     \o <<60, 47, 99, 111, 100, 101, 62>>
                     \o <<60, 47, 115, 116, 114, 111, 110, 103, 62>>
                     \o <<10, 60, 47, 112, 62, 10>>

C19_OnlyEscapeAndBacktickInCode == [](C19_Example) /\ [][C19_Step]_vars

\* bold opened before inline code is still open after the code, which held
\* a '*', has closed
C19_Witness ==
    /\ pc = "runes"
    /\ failAt = 0
    /\ doc = << <<42, 96, 42, 91, 96, 42>> >>
    /\ runeIndex = 6
    /\ lastBold = 0
    /\ lastCode = -1
    /\ EndsWith(out, <<42, 91, 60, 47, 99, 111, 100, 101, 62>>)

(***************************************************************************)
(* C20.  In what renderLine has written for a line, at any point of the    *)
(* pass, </strong> never outnumbers <strong> nor </code> <code>: there is  *)
(* one more opening marker exactly while the construct is open, so on a    *)
(* line that renderLine returns nil for the markers are balanced; and      *)
(* every <strong> and </strong> stands where as many </code> as <code>     *)
(* precede it, that is outside inline code.                                *)
(***************************************************************************)
\* what has been written since the <p> of the line being rendered
LineOut ==
    LET P == {i \in 1..Len(out) : OccursAt(out, <<60, 112, 62>>, i)}
    IN  IF P = {} THEN <<>> ELSE SubSeq(out, Max(P) + 3, Len(out))

strongOpen == <<60, 115, 116, 114, 111, 110, 103, 62>>
strongClose == <<60, 47, 115, 116, 114, 111, 110, 103, 62>>
codeOpen == <<60, 99, 111, 100, 101, 62>>
codeClose == <<60, 47, 99, 111, 100, 101, 62>>

\* the renderLine call of the current line is running or has returned nil
LineRendering == pc = "runes" \/ (lineCount > 0 /\ rlErr = [kind |-> "nil"]
                                     /\ EndsWith(out, <<60, 47, 112, 62, 10>>))

C20_MarkersBalanced ==
    LineRendering =>
        LET s == LineOut
            before(i) == SubSeq(s, 1, i - 1)
        IN  /\ Count(s, strongOpen) - Count(s, strongClose) =
                   (IF pc = "runes" /\ lastBold > -1 THEN 1 ELSE 0)
            /\ Count(s, codeOpen) - Count(s, codeClose) =
                   (IF pc = "runes" /\ lastCode > -1 THEN 1 ELSE 0)
            /\ \A i \in 1..Len(s) :
                   (OccursAt(s, strongOpen, i) \/ OccursAt(s, strongClose, i))
                       => Count(before(i), codeOpen)
                              = Count(before(i), codeClose)
            /\ \A i \in 1..Len(s) :
                   /\ Count(before(i), strongClose)
                          <= Count(before(i), strongOpen)
                   /\ Count(before(i), codeClose)
                          <= Count(before(i), codeOpen)

\* "*a* `a` [a a]" rendered: one pair of each marker
C20_Witness ==
    /\ pc = "done"
    /\ failAt = 0
    /\ result = Nil
    /\ doc = << <<42, 97, 42, 32, 96, 97, 96, 32, 91, 97, 32, 97, 93>> >>
    /\ Count(LineOut, strongOpen) = 1
    /\ Count(LineOut, strongClose) = 1
    /\ Count(LineOut, codeOpen) = 1
    /\ Count(LineOut, codeClose) = 1

=============================================================================
